---- MODULE Spec2Model ----
(***************************************************************************)
(* Model of the States-of-Matter lab: App.tsx (selection and matter state) *)
(* and SimulationCanvas.tsx (simulation state store, descriptor effect,    *)
(* frame loop, particle motion, liquid smoothing, pointer hit test).       *)
(*                                                                         *)
(* JavaScript numbers are modelled in fixed point: lengths, positions and  *)
(* velocities in 1/Scale pixel, fill levels in 1/FillScale, unit vectors   *)
(* in 1/NormScale.  Every assignment rounds to the nearest unit.           *)
(***************************************************************************)
EXTENDS Integers, Sequences, FiniteSets, TLC

VARIABLES
    containers,          \* App: useState<ContainerData[]>, seq of [id, type, matter]
    selectedId,          \* App: useState<number | null>, NoSelection for null
    waterLevels,         \* simStateRef.current.waterLevels (target fill per slot)
    currentWaterLevels,  \* simStateRef.current.currentWaterLevels
    particles,           \* simStateRef.current.particles (one batch per slot)
    containerBounds,     \* simStateRef.current.containerBounds
    viewport,            \* what canvas.getBoundingClientRect() returns: [width, height]
    mounted,             \* canvasRef.current is the canvas (TRUE) or null (FALSE)
    requestRef,          \* requestRef.current
    pending,             \* requestAnimationFrame callbacks not yet run or cancelled
    nextHandle,          \* the handle the next requestAnimationFrame call returns
    ticks,               \* number of drawScene executions that drew a frame
    clickLog,            \* the last handleClick: point, bounds it read, onSelect calls
    hasContext,          \* canvas.getContext('2d') returns a context (TRUE) or null
    surface              \* per slot, the liquid surface ellipse of the last frame

vars == <<containers, selectedId, waterLevels, currentWaterLevels, particles,
          containerBounds, viewport, mounted, requestRef, pending, nextHandle,
          ticks, clickLog, hasContext, surface>>

simVars == <<waterLevels, currentWaterLevels, particles, containerBounds>>

-----------------------------------------------------------------------------
(* Number model *)

Scale == 50
FillScale == 1000000
NormScale == 1000
RandRes == 150

Px(n) == n * Scale

\* a / b rounded to the nearest integer (halves up), b > 0
RoundDiv(a, b) == (2 * a + b) \div (2 * b)

Abs(a) == IF a < 0 THEN -a ELSE a

RECURSIVE SqrtSearch(_, _, _)
SqrtSearch(n, lo, hi) ==
    IF lo >= hi THEN lo
    ELSE LET mid == (lo + hi + 1) \div 2
         IN IF mid * mid <= n THEN SqrtSearch(n, mid, hi)
            ELSE SqrtSearch(n, lo, mid - 1)

\* Math.sqrt on fixed-point lengths: the largest s with s*s <= n
ISqrt(n) == SqrtSearch(n, 0, 46340)

-----------------------------------------------------------------------------
(* Bounds of the model *)

NumSeeds == 2
MaxHandle == 7
MaxRunTicks == 80
NumTargets == 10
MaxLevelSteps == 48

-----------------------------------------------------------------------------
(* types.ts, App.tsx *)

NoSelection == 0
NumParticles == 40

MatterStates == {"EMPTY", "SOLID", "LIQUID", "GAS"}
ButtonMatters == {"SOLID", "LIQUID", "GAS"}

INITIAL_CONTAINERS ==
    << [id |-> 1, type |-> "CUBE",     matter |-> "EMPTY"],
       [id |-> 2, type |-> "CYLINDER", matter |-> "EMPTY"],
       [id |-> 3, type |-> "SPHERE",   matter |-> "EMPTY"] >>

Slots == 1..Len(INITIAL_CONTAINERS)

-----------------------------------------------------------------------------
(* Math.random(): draw number n (from 0) of stream seed, as a multiple of  *)
(* 1/RandRes in [0, 1).  Stream 1 opens with two draws of exactly 0.5 (a   *)
(* particle at rest), then the largest and the smallest values.            *)

MathRandom(seed, n) ==
    IF seed = 1 /\ n < 12
    THEN << 75, 75, 0, 0,   149, 149, 149, 3,   0, 0, 149, 2 >>[n + 1]
    ELSE (seed * 41 + n * 67 + n * n * 7) % RandRes

\* newParticles.push({x: 0, y: 0, vx, vy, radius, color}) for loop index i
NewParticle(seed, i) ==
    LET r1 == MathRandom(seed, 4 * i)
        r2 == MathRandom(seed, 4 * i + 1)
        r3 == MathRandom(seed, 4 * i + 2)
        r4 == MathRandom(seed, 4 * i + 3)
    IN [ x      |-> 0,
         y      |-> 0,
         vx     |-> RoundDiv((2 * r1 - RandRes) * 3 * Scale, 2 * RandRes),
         vy     |-> RoundDiv((2 * r2 - RandRes) * 3 * Scale, 2 * RandRes),
         radius |-> Px(4) + RoundDiv(r3 * Px(4), RandRes),
         color  |-> (r4 * 4) \div RandRes ]

\* for (let i = 0; i < 40; i++) newParticles.push(...)
NewBatch(seed) == [k \in 1..NumParticles |-> NewParticle(seed, k - 1)]

\* state.waterLevels[index] = c.matter === LIQUID ? 0.7 : 0
TargetFill(matter) == IF matter = "LIQUID" THEN (7 * FillScale) \div 10 ELSE 0

\* mutant: the effect forgets to clear the batch of a vessel that is not GAS
EffectParticles_NoClear(matter, batch, seed) ==
    IF matter = "GAS"
    THEN IF Len(batch) = 0 THEN NewBatch(seed) ELSE batch
    ELSE batch

\* mutant: the effect spawns a new batch for a GAS vessel on every run
EffectParticles_Respawn(matter, batch, seed) ==
    IF matter = "GAS" THEN NewBatch(seed) ELSE << >>

\* the Gas branch of the descriptor effect for one slot
EffectParticles(matter, batch, seed) ==
    IF matter = "GAS"
    THEN IF Len(batch) = 0 THEN NewBatch(seed) ELSE batch
    ELSE << >>

-----------------------------------------------------------------------------
(* updateParticles, one particle *)

\* mutant: the right and bottom walls are tested without the particle's radius
UpdateRect_NoRadius(p, bx, by, bw, bh) ==
    LET x0 == p.x + p.vx
        y0 == p.y + p.vy
        init == x0 = 0 /\ y0 = 0
        x1 == IF init THEN bx + bw \div 2 ELSE x0
        y1 == IF init THEN by + bh \div 2 ELSE y0
        hitL == x1 < bx + p.radius
        x2 == IF hitL THEN bx + p.radius ELSE x1
        vx2 == IF hitL THEN -p.vx ELSE p.vx
        hitR == x2 > bx + bw
        x3 == IF hitR THEN bx + bw ELSE x2
        vx3 == IF hitR THEN -vx2 ELSE vx2
        hitT == y1 < by + p.radius
        y2 == IF hitT THEN by + p.radius ELSE y1
        vy2 == IF hitT THEN -p.vy ELSE p.vy
        hitB == y2 > by + bh
        y3 == IF hitB THEN by + bh ELSE y2
        vy3 == IF hitB THEN -vy2 ELSE vy2
    IN [p EXCEPT !.x = x3, !.y = y3, !.vx = vx3, !.vy = vy3]

UpdateRect(p, bx, by, bw, bh) ==
    LET x0 == p.x + p.vx
        y0 == p.y + p.vy
        init == x0 = 0 /\ y0 = 0
        x1 == IF init THEN bx + bw \div 2 ELSE x0
        y1 == IF init THEN by + bh \div 2 ELSE y0
        hitL == x1 < bx + p.radius
        x2 == IF hitL THEN bx + p.radius ELSE x1
        vx2 == IF hitL THEN -p.vx ELSE p.vx
        hitR == x2 > bx + bw - p.radius
        x3 == IF hitR THEN bx + bw - p.radius ELSE x2
        vx3 == IF hitR THEN -vx2 ELSE vx2
        hitT == y1 < by + p.radius
        y2 == IF hitT THEN by + p.radius ELSE y1
        vy2 == IF hitT THEN -p.vy ELSE p.vy
        hitB == y2 > by + bh - p.radius
        y3 == IF hitB THEN by + bh - p.radius ELSE y2
        vy3 == IF hitB THEN -vy2 ELSE vy2
    IN [p EXCEPT !.x = x3, !.y = y3, !.vx = vx3, !.vy = vy3]

\* the two velocity assignments of the circle branch, in program order
ReflectCircle(vx, vy, nx, ny) ==
    LET vx1 == vx - RoundDiv(2 * (vx * nx + vy * ny) * nx, NormScale * NormScale)
        vy1 == vy - RoundDiv(2 * (vx1 * nx + vy * ny) * ny, NormScale * NormScale)
    IN <<vx1, vy1>>

\* mutant: the velocity is reflected but the position is not pulled back inside
UpdateCircle_NoClamp(p, bx, by, bw) ==
    LET x0 == p.x + p.vx
        y0 == p.y + p.vy
        init == x0 = 0 /\ y0 = 0
        x1 == IF init THEN bx ELSE x0
        y1 == IF init THEN by ELSE y0
        dx == x1 - bx
        dy == y1 - by
        dist == ISqrt(dx * dx + dy * dy)
    IN IF dist > bw - p.radius
       THEN LET nx == RoundDiv(dx * NormScale, dist)
                ny == RoundDiv(dy * NormScale, dist)
                v == ReflectCircle(p.vx, p.vy, nx, ny)
            IN [p EXCEPT !.vx = v[1], !.vy = v[2], !.x = x1, !.y = y1]
       ELSE [p EXCEPT !.x = x1, !.y = y1]

UpdateCircle(p, bx, by, bw) ==
    LET x0 == p.x + p.vx
        y0 == p.y + p.vy
        init == x0 = 0 /\ y0 = 0
        x1 == IF init THEN bx ELSE x0
        y1 == IF init THEN by ELSE y0
        dx == x1 - bx
        dy == y1 - by
        dist == ISqrt(dx * dx + dy * dy)
    IN IF dist > bw - p.radius
       THEN LET nx == RoundDiv(dx * NormScale, dist)
                ny == RoundDiv(dy * NormScale, dist)
                v == ReflectCircle(p.vx, p.vy, nx, ny)
            IN [p EXCEPT !.vx = v[1], !.vy = v[2],
                         !.x = bx + RoundDiv(nx * (bw - p.radius - Px(1)), NormScale),
                         !.y = by + RoundDiv(ny * (bw - p.radius - Px(1)), NormScale)]
       ELSE [p EXCEPT !.x = x1, !.y = y1]

updateParticles(batch, bx, by, bw, bh, shape) ==
    [k \in 1..Len(batch) |->
        IF shape = "RECT" THEN UpdateRect(batch[k], bx, by, bw, bh)
        ELSE UpdateCircle(batch[k], bx, by, bw)]

-----------------------------------------------------------------------------
(* Confinement passed to updateParticles by each drawer, from the bounds   *)
(* (x, y, w, h) drawScene hands it.                                        *)

\* drawCube: updateParticles(ctx, particles, fx, fy, fw, fh, 'RECT')
CubeConfinement(x, y, w, h) ==
    LET depth == (w * 3) \div 10
        pad == Px(10)
    IN [shape |-> "RECT",
        bx |-> x + pad,
        by |-> y + pad + depth \div 2,
        bw |-> w - pad * 2,
        bh |-> h - pad * 2 - depth \div 2]

\* drawCylinder: updateParticles(ctx, particles, jx, ty, jw, by - ty, 'RECT')
CylinderConfinement(x, y, w, h) ==
    LET jw == (w * 7) \div 10
        jx == x + (w - jw) \div 2
        ry == Px(12)
        ty == y + ry + Px(10)
        by == y + h - ry - Px(5)
    IN [shape |-> "RECT", bx |-> jx, by |-> ty, bw |-> jw, bh |-> by - ty]

\* drawSphere: updateParticles(ctx, particles, cx, cy, r, r, 'CIRCLE')
SphereConfinement(x, y, w, h) ==
    LET cx == x + w \div 2
        cy == y + h \div 2 + Px(10)
        r == w \div 2 - Px(10)
    IN [shape |-> "CIRCLE", bx |-> cx, by |-> cy, bw |-> r, bh |-> r]

\* the "Delegate to specific drawers" switch of drawScene, for bounds b
Confinement(type, b) ==
    IF type = "CUBE" THEN CubeConfinement(b.x, b.y, b.w, b.h)
    ELSE IF type = "CYLINDER"
    THEN LET tallH == (b.h * 12) \div 10
             tallY == b.y + b.h - tallH
         IN CylinderConfinement(b.x, tallY, b.w, tallH)
    ELSE SphereConfinement(b.x, b.y, b.w, b.h)

\* what one frame does to a slot's batch: only the GAS branch of a drawer moves it
DrawContents(c, b, batch) ==
    IF c.matter = "GAS"
    THEN LET k == Confinement(c.type, b)
         IN updateParticles(batch, k.bx, k.by, k.bw, k.bh, k.shape)
    ELSE batch

\* a * level / FillScale, split so that the product stays in 32 bits
MulFill(a, level) ==
    LET k == 1000
    IN RoundDiv(a * (level \div k) + RoundDiv(a * (level % k), k), k)

NoSurface ==
    [liquid |-> FALSE, level |-> 0, r |-> 0, d |-> 0, isNaN |-> FALSE,
     surfaceR |-> 0, ellipse |-> FALSE]

\* mutant: the guard is only !isNaN(surfaceR)
SphereSurface_NoPositive(x, y, w, h, waterLevel) ==
    LET cy == y + h \div 2 + Px(10)
        r == w \div 2 - Px(10)
        lh == MulFill(2 * r, waterLevel)
        wy == (cy + r) - lh
        distFromCenter == Abs(cy - wy)
        radicand == r * r - distFromCenter * distFromCenter
        nan == radicand < 0
        surfaceR == IF nan THEN 0 ELSE ISqrt(radicand)
    IN [liquid |-> TRUE, level |-> waterLevel, r |-> r, d |-> distFromCenter,
        isNaN |-> nan, surfaceR |-> surfaceR, ellipse |-> ~nan]

\* drawSphere, LIQUID branch: lh, wy, distFromCenter, surfaceR (NaN for a
\* negative radicand) and whether ctx.ellipse is called for the surface
SphereSurface(x, y, w, h, waterLevel) ==
    LET cy == y + h \div 2 + Px(10)
        r == w \div 2 - Px(10)
        lh == MulFill(2 * r, waterLevel)
        wy == (cy + r) - lh
        distFromCenter == Abs(cy - wy)
        radicand == r * r - distFromCenter * distFromCenter
        nan == radicand < 0
        surfaceR == IF nan THEN 0 ELSE ISqrt(radicand)
    IN [liquid |-> TRUE, level |-> waterLevel, r |-> r, d |-> distFromCenter,
        isNaN |-> nan, surfaceR |-> surfaceR, ellipse |-> ~nan /\ surfaceR > 0]

\* the surface ellipse a frame draws for a slot: only a LIQUID sphere has one
DrawSurface(c, b, level) ==
    IF c.type = "SPHERE" /\ c.matter = "LIQUID"
    THEN SphereSurface(b.x, b.y, b.w, b.h, level)
    ELSE NoSurface

-----------------------------------------------------------------------------
(* drawScene: layout and liquid smoothing *)

\* newBounds = containers.map((c, i) => ({id, x: gap + i*(cSize+gap), y: yBase, w, h}))
Layout(cs, vp) ==
    LET cSize == Px(140)
        tableY == (vp.height * 7) \div 10
        gap == RoundDiv(vp.width - cSize * 3, 4)
        yBase == tableY - cSize + Px(40)
    IN [i \in 1..Len(cs) |->
          [id |-> cs[i].id, x |-> gap + (i - 1) * (cSize + gap), y |-> yBase,
           w |-> cSize, h |-> cSize]]

\* mutant: a smoothing rate of 0.5
SmoothFill_Half(current, target) == current + RoundDiv((target - current) * 50, 100)

\* mutant: a smoothing rate of 1.05
SmoothFill_Overshoot(current, target) == current + RoundDiv((target - current) * 105, 100)

\* state.currentWaterLevels[i] = current + (target - current) * 0.05
SmoothFill(current, target) == current + RoundDiv((target - current) * 5, 100)

-----------------------------------------------------------------------------
(* handleClick: the ids passed to onSelect, in call order *)

\* mutant: the 40px slack is applied on both axes
Hit_Wide(b, x, y) ==
    /\ x >= b.x - Px(40)
    /\ x <= b.x + b.w + Px(40)
    /\ y >= b.y - Px(40)
    /\ y <= b.y + b.h + Px(40)

Hit(b, x, y) ==
    /\ x >= b.x - Px(10)
    /\ x <= b.x + b.w + Px(10)
    /\ y >= b.y - Px(40)
    /\ y <= b.y + b.h + Px(40)

\* mutant: the loop stops at the first vessel hit
RECURSIVE HitIds_First(_, _, _)
HitIds_First(bounds, x, y) ==
    IF bounds = << >> THEN << >>
    ELSE IF Hit(Head(bounds), x, y) THEN << Head(bounds).id >>
    ELSE HitIds_First(Tail(bounds), x, y)

RECURSIVE HitIds(_, _, _)
HitIds(bounds, x, y) ==
    IF bounds = << >> THEN << >>
    ELSE (IF Hit(Head(bounds), x, y) THEN << Head(bounds).id >> ELSE << >>)
         \o HitIds(Tail(bounds), x, y)

\* setSelectedId once per onSelect call, batched: the last call wins
SelectAfter(calls, sel) == IF calls = << >> THEN sel ELSE calls[Len(calls)]

\* setContainers(prev => prev.map(c => c.id === selectedId ? {...c, matter} : c))
SetMatterOf(cs, sel, matter) ==
    [i \in 1..Len(cs) |-> IF cs[i].id = sel THEN [cs[i] EXCEPT !.matter = matter] ELSE cs[i]]

-----------------------------------------------------------------------------
(* Inputs *)

\* viewport sizes (width, height of the canvas rectangle), in pixels
ViewportsPx == { <<440, 300>>, <<700, 400>> }
Viewports == { [width |-> Px(v[1]), height |-> Px(v[2])] : v \in ViewportsPx }

\* pointer positions, local to the canvas, in pixels
ClickPointsPx == { <<120, 170>>, <<150, 180>>, <<365, 180>>, <<560, 180>>, <<700, 170>> }

-----------------------------------------------------------------------------
(* State after the first render and its effects (mount) *)

Callback(h, cs, sel) == [handle |-> h, containers |-> cs, selectedId |-> sel]

Init ==
    /\ containers = INITIAL_CONTAINERS
    /\ selectedId = NoSelection
    /\ waterLevels = [i \in Slots |-> TargetFill(INITIAL_CONTAINERS[i].matter)]
    /\ currentWaterLevels = [i \in Slots |-> 0]
    /\ particles = [i \in Slots |-> << >>]
    /\ containerBounds = << >>
    /\ viewport \in Viewports
    /\ mounted = TRUE
    /\ requestRef = 1
    /\ pending = { Callback(1, INITIAL_CONTAINERS, NoSelection) }
    /\ nextHandle = 2
    /\ ticks = 0
    /\ clickLog = [x |-> 0, y |-> 0, bounds |-> << >>, calls |-> << >>]
    /\ hasContext \in BOOLEAN
    /\ surface = [i \in Slots |-> NoSurface]

-----------------------------------------------------------------------------
(* A render of SimulationCanvas with props (cs, sel) and the effects it    *)
(* runs.  COLORS is a new object on every render, so both effects run on   *)
(* every render: the cleanup of the scheduling effect, the descriptor      *)
(* effect, then the scheduling effect.                                     *)

\* mutant: the descriptor effect also zeroes the current fill levels
Render_Reset(cs, sel, seed) ==
    /\ waterLevels' = [i \in Slots |-> TargetFill(cs[i].matter)]
    /\ currentWaterLevels' = [i \in Slots |-> 0]
    /\ particles' = [i \in Slots |-> EffectParticles(cs[i].matter, particles[i], seed)]
    /\ pending' = { e \in pending : e.handle # requestRef }
                     \cup { Callback(nextHandle, cs, sel) }
    /\ requestRef' = nextHandle
    /\ nextHandle' = nextHandle + 1
    /\ UNCHANGED containerBounds

\* mutant: the re-run of the scheduling effect does not cancel the old request
Render_NoCancel(cs, sel, seed) ==
    /\ waterLevels' = [i \in Slots |-> TargetFill(cs[i].matter)]
    /\ particles' = [i \in Slots |-> EffectParticles(cs[i].matter, particles[i], seed)]
    /\ pending' = pending \cup { Callback(nextHandle, cs, sel) }
    /\ requestRef' = nextHandle
    /\ nextHandle' = nextHandle + 1
    /\ UNCHANGED <<currentWaterLevels, containerBounds>>

Render(cs, sel, seed) ==
    /\ waterLevels' = [i \in Slots |-> TargetFill(cs[i].matter)]
    /\ particles' = [i \in Slots |-> EffectParticles(cs[i].matter, particles[i], seed)]
    /\ pending' = { e \in pending : e.handle # requestRef }
                     \cup { Callback(nextHandle, cs, sel) }
    /\ requestRef' = nextHandle
    /\ nextHandle' = nextHandle + 1
    /\ UNCHANGED <<currentWaterLevels, containerBounds>>

\* mutant: drawScene ends without requesting the next frame
DrawFrame_NoReschedule(e) ==
    LET newBounds == Layout(e.containers, viewport)
    IN /\ containerBounds' = newBounds
       /\ currentWaterLevels' =
            [i \in Slots |-> SmoothFill(currentWaterLevels[i], waterLevels[i])]
       /\ particles' =
            [i \in Slots |-> DrawContents(e.containers[i], newBounds[i], particles[i])]
       /\ pending' = pending \ {e}
       /\ ticks' = ticks + 1
       /\ surface' = [i \in Slots |->
              DrawSurface(e.containers[i], newBounds[i], currentWaterLevels'[i])]
       /\ UNCHANGED <<containers, selectedId, waterLevels, viewport, mounted,
                      requestRef, nextHandle, clickLog, hasContext>>

\* the body of drawScene for a callback e whose canvas and context exist
DrawFrame(e) ==
    LET newBounds == Layout(e.containers, viewport)
    IN /\ containerBounds' = newBounds
       /\ currentWaterLevels' =
            [i \in Slots |-> SmoothFill(currentWaterLevels[i], waterLevels[i])]
       /\ particles' =
            [i \in Slots |-> DrawContents(e.containers[i], newBounds[i], particles[i])]
       /\ pending' = (pending \ {e}) \cup
                        { Callback(nextHandle, e.containers, e.selectedId) }
       /\ requestRef' = nextHandle
       /\ nextHandle' = nextHandle + 1
       /\ ticks' = ticks + 1
       /\ surface' = [i \in Slots |->
              DrawSurface(e.containers[i], newBounds[i], currentWaterLevels'[i])]
       /\ UNCHANGED <<containers, selectedId, waterLevels, viewport, mounted,
                      clickLog, hasContext>>

\* the browser runs a pending animation-frame callback: drawScene, which
\* returns at once, scheduling nothing, when the canvas or its context is null
FrameTick ==
    /\ nextHandle <= MaxHandle
    /\ \E e \in pending :
         IF mounted /\ hasContext
         THEN DrawFrame(e)
         ELSE /\ pending' = pending \ {e}
              /\ UNCHANGED <<containers, selectedId, simVars, viewport, mounted,
                             requestRef, nextHandle, ticks, clickLog, hasContext,
                             surface>>

\* handleClick at local point (x, y), then App's handleSelectContainer and re-render
Click(x, y) ==
    /\ mounted
    /\ LET calls == HitIds(containerBounds, x, y)
           sel == SelectAfter(calls, selectedId)
       IN /\ clickLog' = [x |-> x, y |-> y, bounds |-> containerBounds, calls |-> calls]
          /\ selectedId' = sel
          /\ IF sel # selectedId
             THEN /\ nextHandle <= MaxHandle
                  /\ \E seed \in 1..NumSeeds : Render(containers, sel, seed)
             ELSE UNCHANGED <<simVars, requestRef, pending, nextHandle>>
    /\ UNCHANGED <<containers, viewport, mounted, ticks, hasContext, surface>>

PointerClick == \E pt \in ClickPointsPx : Click(Px(pt[1]), Px(pt[2]))

\* App.handleSetMatter(matter), from one of the three buttons, and the re-render
handleSetMatter(matter) ==
    /\ mounted
    /\ selectedId # NoSelection
    /\ nextHandle <= MaxHandle
    /\ LET cs == SetMatterOf(containers, selectedId, matter)
       IN /\ containers' = cs
          /\ \E seed \in 1..NumSeeds : Render(cs, selectedId, seed)
    /\ UNCHANGED <<selectedId, viewport, mounted, ticks, clickLog, hasContext,
                   surface>>

SetMatter == \E matter \in ButtonMatters : handleSetMatter(matter)

\* the window is resized: getBoundingClientRect() returns another rectangle
Resize ==
    /\ mounted
    /\ \E v \in Viewports : v # viewport /\ viewport' = v
    /\ UNCHANGED <<containers, selectedId, simVars, mounted, requestRef, pending,
                   nextHandle, ticks, clickLog, hasContext, surface>>

\* mutant: the scheduling effect returns no cleanup
Unmount_NoCancel ==
    /\ mounted
    /\ mounted' = FALSE
    /\ UNCHANGED <<containers, selectedId, simVars, viewport, requestRef, pending,
                   nextHandle, ticks, clickLog, hasContext, surface>>

\* the component unmounts: the cleanup of the scheduling effect, the canvas ref is cleared
Unmount ==
    /\ mounted
    /\ mounted' = FALSE
    /\ pending' = { e \in pending : e.handle # requestRef }
    /\ UNCHANGED <<containers, selectedId, simVars, viewport, requestRef,
                   nextHandle, ticks, clickLog, hasContext, surface>>

Next == FrameTick \/ PointerClick \/ SetMatter \/ Resize \/ Unmount

Spec == Init /\ [][Next]_vars

-----------------------------------------------------------------------------
(* Long runs of the frame loop with no other event *)

RunTick ==
    /\ mounted
    /\ ticks < MaxRunTicks
    /\ \E e \in pending : DrawFrame(e)

AllOf(matter) == [i \in Slots |-> [INITIAL_CONTAINERS[i] EXCEPT !.matter = matter]]

\* every vessel has just been switched to GAS (three selections and three
\* presses of the Gas button after a first frame); ticks counts from here
InitGas ==
    /\ containers = AllOf("GAS")
    /\ selectedId = 3
    /\ waterLevels = [i \in Slots |-> TargetFill("GAS")]
    /\ currentWaterLevels = [i \in Slots |-> 0]
    /\ \E s \in [Slots -> 1..NumSeeds] : particles = [i \in Slots |-> NewBatch(s[i])]
    /\ viewport \in Viewports
    /\ containerBounds = Layout(containers, viewport)
    /\ mounted = TRUE
    /\ requestRef = 1
    /\ pending = { Callback(1, containers, selectedId) }
    /\ nextHandle = 2
    /\ ticks = 0
    /\ clickLog = [x |-> 0, y |-> 0, bounds |-> << >>, calls |-> << >>]
    /\ hasContext = TRUE
    /\ surface = [i \in Slots |-> NoSurface]

SpecGas == InitGas /\ [][RunTick]_vars

\* the smoothing step from currentFill = 0 toward a constant target T, for
\* T = 0.1, 0.2, ...; 0.7 is the target of a LIQUID vessel
FillTargets == { (t * FillScale) \div 10 : t \in 1..NumTargets }

InitFill ==
    /\ containers = AllOf("LIQUID")
    /\ selectedId = 3
    /\ \E T \in FillTargets : waterLevels = [i \in Slots |-> T]
    /\ currentWaterLevels = [i \in Slots |-> 0]
    /\ particles = [i \in Slots |-> << >>]
    /\ viewport \in Viewports
    /\ containerBounds = Layout(containers, viewport)
    /\ mounted = TRUE
    /\ requestRef = 1
    /\ pending = { Callback(1, containers, selectedId) }
    /\ nextHandle = 2
    /\ ticks = 0
    /\ clickLog = [x |-> 0, y |-> 0, bounds |-> << >>, calls |-> << >>]
    /\ hasContext = TRUE
    /\ surface = [i \in Slots |-> NoSurface]

SpecFill == InitFill /\ [][RunTick]_vars

-----------------------------------------------------------------------------
(* handleClick as a function of the stored bounds and the point *)

ScenarioBounds ==
    << [id |-> 1, x |-> Px(50),  y |-> Px(100), w |-> Px(140), h |-> Px(140)],
       [id |-> 2, x |-> Px(250), y |-> Px(100), w |-> Px(140), h |-> Px(140)],
       [id |-> 3, x |-> Px(450), y |-> Px(100), w |-> Px(140), h |-> Px(140)] >>

HitPointsPx ==
    { <<x, y>> : x \in {10, 39, 40, 120, 200, 201, 245, 395, 600, 601, 700},
                 y \in {59, 60, 170, 280, 281} }

InitHit ==
    /\ containers = INITIAL_CONTAINERS
    /\ selectedId = NoSelection
    /\ waterLevels = [i \in Slots |-> 0]
    /\ currentWaterLevels = [i \in Slots |-> 0]
    /\ particles = [i \in Slots |-> << >>]
    /\ viewport \in Viewports
    /\ containerBounds \in { ScenarioBounds, Layout(containers, viewport) }
    /\ mounted = TRUE
    /\ requestRef = 2
    /\ pending = { Callback(2, containers, selectedId) }
    /\ nextHandle = 3
    /\ ticks = 1
    /\ clickLog = [x |-> 0, y |-> 0, bounds |-> << >>, calls |-> << >>]
    /\ hasContext = TRUE
    /\ surface = [i \in Slots |-> NoSurface]

HitClick == \E pt \in HitPointsPx : Click(Px(pt[1]), Px(pt[2]))

SpecHit == InitHit /\ [][HitClick]_vars

-----------------------------------------------------------------------------
(* Claims *)

\* the confinement of slot i in the frame last drawn
ConfinementOf(i) == Confinement(containers[i].type, containerBounds[i])

RectSlots == { i \in Slots : ConfinementOf(i).shape = "RECT" }
CircleSlots == { i \in Slots : ConfinementOf(i).shape = "CIRCLE" }

InRect(p, k) ==
    /\ k.bx + p.radius <= p.x
    /\ p.x <= k.bx + k.bw - p.radius
    /\ k.by + p.radius <= p.y
    /\ p.y <= k.by + k.bh - p.radius

\* C1: in a GAS box or jar, once the batch has been ticked, every particle's
\* centre lies in [bx+r, bx+bw-r] x [by+r, by+bh-r] of the confinement rectangle
\* its drawer passed to updateParticles.
C1_RectContainment ==
    ticks >= 1 =>
        \A i \in RectSlots : \A k \in 1..Len(particles[i]) :
            InRect(particles[i][k], ConfinementOf(i))

\* a particle has crossed its box and sits on the right wall, another on the floor
C1_Witness ==
    /\ ticks >= 2
    /\ \E i \in RectSlots : \E k \in 1..Len(particles[i]) :
         particles[i][k].x = ConfinementOf(i).bx + ConfinementOf(i).bw - particles[i][k].radius
    /\ \E i \in RectSlots : \E k \in 1..Len(particles[i]) :
         particles[i][k].y = ConfinementOf(i).by + ConfinementOf(i).bh - particles[i][k].radius

Dist2(p, k) == (p.x - k.bx) * (p.x - k.bx) + (p.y - k.by) * (p.y - k.by)

\* C2: in a GAS bowl, once the batch has been ticked, every particle's distance
\* from the confinement centre is at most R - r, up to one unit of rounding.
C2_CircleContainment ==
    ticks >= 1 =>
        \A i \in CircleSlots : \A k \in 1..Len(particles[i]) :
            LET p == particles[i][k]
                c == ConfinementOf(i)
            IN Dist2(p, c) <= (c.bw - p.radius + 1) * (c.bw - p.radius + 1)

\* a bowl particle has left the ring it was clamped to and moves freely inside
C2_Witness ==
    /\ ticks >= 3
    /\ \E i \in CircleSlots : \E k \in 1..Len(particles[i]) :
         LET p == particles[i][k]
             c == ConfinementOf(i)
         IN /\ Dist2(p, c) < (c.bw - p.radius - Px(2)) * (c.bw - p.radius - Px(2))
            /\ Dist2(p, c) > 0

Speed2(p) == p.vx * p.vx + p.vy * p.vy

\* C3: a tick changes no particle's squared speed (up to the rounding of the
\* two velocity components): wall and circle reflections preserve |v|.
C3_SpeedPreserved ==
    [][\A i \in Slots : \A k \in 1..Len(particles[i]) :
          Len(particles'[i]) = Len(particles[i]) =>
             Abs(Speed2(particles'[i][k]) - Speed2(particles[i][k]))
                <= 4 * (Abs(particles[i][k].vx) + Abs(particles[i][k].vy) + 1)]_vars

\* T * 0.95^n in fill units (for T >= 0), one factor 0.95 at a time
RECURSIVE Decay(_, _)
Decay(T, n) == IF T < 0 \/ n = 0 THEN T ELSE Decay(RoundDiv(T * 95, 100), n - 1)

\* 0.05^n in fill units, rounded up
RECURSIVE Pow05(_)
Pow05(n) == IF n = 0 THEN FillScale ELSE (Pow05(n - 1) + 19) \div 20

FillError(i) == waterLevels[i] - currentWaterLevels[i]

\* C4 as stated: from currentFill = 0 and a constant target T, after N >= 1
\* ticks |currentFill - T| < 0.05^N, and after 60 ticks currentFill is within 0.01
\* of T for every T >= 0.1.
C4_Original ==
    \A i \in Slots :
        /\ ticks >= 1 => Abs(FillError(i)) < Pow05(ticks)
        /\ ticks >= 60 /\ waterLevels[i] >= FillScale \div 10
              => Abs(FillError(i)) <= FillScale \div 100

\* C4 amended: after N ticks the error is T * 0.95^N (one unit of rounding per
\* tick), never negative, and after 60 ticks it is below 5% of T.
C4_FillConvergence ==
    \A i \in Slots :
        /\ FillError(i) >= 0
        /\ Abs(FillError(i) - Decay(waterLevels[i], ticks)) <= ticks
        /\ ticks >= 60 => FillError(i) * 20 <= waterLevels[i]

\* a LIQUID vessel (T = 0.7) after exactly 60 ticks, still more than 0.01 short
C4_Witness ==
    /\ ticks = 60
    /\ \E i \in Slots :
         /\ waterLevels[i] = TargetFill("LIQUID")
         /\ FillError(i) > FillScale \div 100
         /\ FillError(i) * 20 <= waterLevels[i]

FillInRange == \A i \in Slots : 0 <= currentWaterLevels[i] /\ currentWaterLevels[i] <= FillScale

\* C5: currentFill of every slot stays in [0, 1], and a frame tick moves it
\* toward targetFill without crossing it.
C5_FillNoOvershoot ==
    /\ FillInRange
    /\ [][/\ FillInRange'
          /\ ticks' = ticks + 1 =>
               \A i \in Slots :
                  /\ currentWaterLevels[i] <= waterLevels[i] =>
                        /\ currentWaterLevels[i] <= currentWaterLevels'[i]
                        /\ currentWaterLevels'[i] <= waterLevels[i]
                  /\ currentWaterLevels[i] >= waterLevels[i] =>
                        /\ waterLevels[i] <= currentWaterLevels'[i]
                        /\ currentWaterLevels'[i] <= currentWaterLevels[i]]_vars

\* a vessel that was LIQUID, rose, was switched away and has sunk for a tick
C5_Witness ==
    \E i \in Slots :
        /\ waterLevels[i] = 0
        /\ currentWaterLevels[i] > 0
        /\ currentWaterLevels[i] < SmoothFill(0, TargetFill("LIQUID"))

\* C6: after the descriptor effect has run, a slot's batch holds exactly 40
\* particles if its vessel is GAS and is empty otherwise.
C6_BatchFollowsMatter ==
    \A i \in Slots :
        Len(particles[i]) = IF containers[i].matter = "GAS" THEN NumParticles ELSE 0

IsFresh(batch) ==
    /\ Len(batch) = NumParticles
    /\ \A k \in 1..Len(batch) : batch[k].x = 0 /\ batch[k].y = 0

HasMoved(batch) ==
    /\ Len(batch) = NumParticles
    /\ \E k \in 1..Len(batch) : batch[k].x # 0 \/ batch[k].y # 0

\* one vessel is GAS with a batch that frames have moved, another was GAS and
\* now holds something else (its fill still shows it was LIQUID or it is SOLID)
C6_Witness ==
    \E i, j \in Slots :
        /\ containers[i].matter = "GAS" /\ HasMoved(particles[i])
        /\ containers[j].matter \in {"SOLID", "LIQUID"} /\ particles[j] = << >>

\* C7 as stated: every handleSetMatter (a new descriptor list) sets every
\* slot's currentFill back to 0 and puts every GAS slot's particles at (0,0).
C7_Original ==
    [][SetMatter =>
          \A i \in Slots :
             /\ currentWaterLevels'[i] = 0
             /\ containers'[i].matter = "GAS" => IsFresh(particles'[i])]_vars

\* C7 amended: a new descriptor list recomputes every slot's targetFill, leaves
\* every currentFill as it is, keeps the batch of a slot that stays GAS, spawns
\* 40 particles at (0,0) for a slot that becomes GAS and empties the others.
C7_EffectKeepsState ==
    [][SetMatter =>
          /\ currentWaterLevels' = currentWaterLevels
          /\ containerBounds' = containerBounds
          /\ \A i \in Slots :
                /\ waterLevels'[i] = TargetFill(containers'[i].matter)
                /\ containers'[i].matter = "GAS" /\ containers[i].matter = "GAS"
                      => particles'[i] = particles[i]
                /\ containers'[i].matter = "GAS" /\ containers[i].matter # "GAS"
                      => IsFresh(particles'[i])
                /\ containers'[i].matter # "GAS" => particles'[i] = << >>]_vars

\* a vessel has just become GAS (fresh batch) while another vessel's batch
\* keeps the positions frames gave it
C7_Witness ==
    \E i, j \in Slots :
        /\ IsFresh(particles[i])
        /\ HasMoved(particles[j])

ClickAt(xPx, yPx) == clickLog.x = Px(xPx) /\ clickLog.y = Px(yPx)

\* C8 as stated: with the scenario's bounds, a click at (120,170) selects the
\* first vessel only, a click at (10,170) selects the first vessel, and a click
\* at (700,170) selects none.
C8_Original ==
    clickLog.bounds = ScenarioBounds =>
        /\ ClickAt(120, 170) => clickLog.calls = << 1 >>
        /\ ClickAt(10, 170) => clickLog.calls = << 1 >>
        /\ ClickAt(700, 170) => clickLog.calls = << >>

\* C8 amended: (10,170) is 40px left of the first vessel's edge at x = 50 and
\* selects nothing; the 10px slack ends at x = 40, which still selects it.
C8_HitScenario ==
    clickLog.bounds = ScenarioBounds =>
        /\ ClickAt(120, 170) => clickLog.calls = << 1 >>
        /\ ClickAt(10, 170) => clickLog.calls = << >>
        /\ ClickAt(39, 170) => clickLog.calls = << >>
        /\ ClickAt(40, 170) => clickLog.calls = << 1 >>
        /\ ClickAt(700, 170) => clickLog.calls = << >>

\* the scenario's click at (10,170) has been handled
C8_Witness ==
    /\ clickLog.bounds = ScenarioBounds
    /\ ClickAt(10, 170)
    /\ selectedId = NoSelection

\* the positions in the bounds list whose box, grown by 10px to the left and
\* right and by 40px up and down, holds the point (edges included)
Holding(bounds, x, y) ==
    { i \in 1..Len(bounds) :
        /\ bounds[i].x - Px(10) <= x /\ x <= bounds[i].x + bounds[i].w + Px(10)
        /\ bounds[i].y - Px(40) <= y /\ y <= bounds[i].y + bounds[i].h + Px(40) }

\* C9: handleClick calls onSelect once for each vessel whose grown box holds
\* the point, for no other vessel, in the order of the bounds list.
C9_MultiMatch ==
    LET B == clickLog.bounds
        H == Holding(B, clickLog.x, clickLog.y)
    IN /\ Len(clickLog.calls) = Cardinality(H)
       /\ \A i \in H :
             clickLog.calls[Cardinality({ j \in H : j < i }) + 1] = B[i].id

\* a click inside two overlapping grown boxes reported both ids
C9_Witness == Len(clickLog.calls) = 2 /\ selectedId = clickLog.calls[2]

\* C10: a step that handles a click or changes the selection changes no
\* target fill, current fill, particle batch or stored bounds; these change
\* only in a frame tick or when the descriptor list changes.
C10_ClickKeepsSimState ==
    [][/\ (PointerClick \/ clickLog' # clickLog \/ selectedId' # selectedId)
             => simVars' = simVars
       /\ simVars' # simVars => (ticks' = ticks + 1 \/ containers' # containers)]_vars

\* the selection moved to another vessel while a GAS vessel's batch was in flight
C10_Witness ==
    \E i \in Slots :
        /\ HasMoved(particles[i])
        /\ selectedId # containers[i].id
        /\ clickLog.calls # << >>
        /\ \E e \in pending : e.selectedId = selectedId /\ e.handle = requestRef

-----------------------------------------------------------------------------
(* C11: teardown cancels the loop.  Once the component has been torn down  *)
(* (the cleanup of the scheduling effect has run) no frame request is      *)
(* pending, and no later step executes drawScene: no frame is counted, the *)
(* simulation state and the drawn surface stay as they were and nothing is *)
(* scheduled, whatever ticks, re-renders and clicks came before.           *)
C11_TeardownCancels ==
    [][ /\ (~mounted' => pending' = {})
        /\ (~mounted => /\ ticks' = ticks
                        /\ UNCHANGED <<simVars, surface, requestRef, nextHandle>>) ]_vars

\* a teardown after frames were drawn and after a click re-rendered
C11_Witness ==
    /\ ~mounted
    /\ hasContext
    /\ ticks >= 2
    /\ selectedId # NoSelection
    /\ requestRef >= 4
    /\ pending = {}

-----------------------------------------------------------------------------
(* drawSphere's liquid surface as a function of the vessel size and the    *)
(* fill level it is handed, for levels from -0.2 in steps of 1/40, inside  *)
(* and outside [0, 1], and for spheres of radius 50 and 60 px              *)

SurfaceLevels == { (k * FillScale) \div 40 : k \in -8..MaxLevelSteps }

BowlSizesPx == {120, 140}

InitSurface ==
    /\ containers = AllOf("LIQUID")
    /\ selectedId = 3
    /\ \E L \in SurfaceLevels :
          /\ waterLevels = [i \in Slots |-> L]
          /\ currentWaterLevels = [i \in Slots |-> L]
    /\ particles = [i \in Slots |-> << >>]
    /\ viewport \in Viewports
    /\ \E size \in BowlSizesPx :
          containerBounds =
              [i \in Slots |-> [Layout(containers, viewport)[i]
                                  EXCEPT !.w = Px(size), !.h = Px(size)]]
    /\ mounted = TRUE
    /\ requestRef = 1
    /\ pending = { Callback(1, containers, selectedId) }
    /\ nextHandle = 2
    /\ ticks = 0
    /\ clickLog = [x |-> 0, y |-> 0, bounds |-> << >>, calls |-> << >>]
    /\ hasContext = TRUE
    /\ surface = [i \in Slots |-> NoSurface]

\* the drawers' contents step for every slot with its bounds and level
SurfaceDraw ==
    /\ surface' = [i \in Slots |->
           DrawSurface(containers[i], containerBounds[i], currentWaterLevels[i])]
    /\ UNCHANGED <<containers, selectedId, simVars, viewport, mounted, requestRef,
                   pending, nextHandle, ticks, clickLog, hasContext>>

SpecSurface == InitSurface /\ [][SurfaceDraw]_vars

\* C12: in drawSphere the liquid surface ellipse is drawn exactly when
\* r^2 - d^2 > 0, with r the sphere radius and d = |r - 2*r*fill| the distance
\* from the sphere centre to the fill plane; it is skipped for d > r (square
\* root of a negative number) and for d = r (radius 0); and a fill level in
\* [0, 1] never gives d > r.
C12_SurfaceGuard ==
    \A i \in Slots :
        surface[i].liquid =>
            LET s == surface[i]
            IN /\ s.d = Abs(s.r - MulFill(2 * s.r, s.level))
               /\ s.ellipse <=> (s.r * s.r - s.d * s.d > 0)
               /\ (s.d > s.r) => (s.isNaN /\ ~s.ellipse)
               /\ (s.d = s.r) => (~s.isNaN /\ s.surfaceR = 0 /\ ~s.ellipse)
               /\ (0 <= s.level /\ s.level <= FillScale) => s.d <= s.r

\* the bowl with r = 50 px handed a level that puts the fill plane 60 px from
\* the centre: the square root is NaN and no ellipse is drawn
C12_Witness ==
    \E i \in Slots :
        /\ surface[i].liquid
        /\ surface[i].r = Px(50)
        /\ surface[i].d = Px(60)
        /\ surface[i].isNaN
        /\ ~surface[i].ellipse

-----------------------------------------------------------------------------
(* C13: the frame loop never stops by itself.  As long as the component is *)
(* mounted and getContext('2d') returns a context, exactly one frame       *)
(* request is pending in every state, every executed frame schedules       *)
(* exactly one new request, and the scheduler goes idle only by teardown;  *)
(* a tick that finds no context returns without scheduling and leaves the  *)
(* loop idle until the scheduling effect runs again.                       *)
C13_LoopKeepsRunning ==
    [][ /\ (mounted' /\ hasContext') => Cardinality(pending') = 1
        /\ (ticks' = ticks + 1) => Cardinality(pending' \ pending) = 1
        /\ (pending # {} /\ pending' = {}) =>
               \/ (mounted /\ ~mounted')
               \/ (~hasContext /\ ticks' = ticks) ]_vars

\* the loop still runs after several frames and a re-render
C13_Witness ==
    /\ mounted
    /\ hasContext
    /\ selectedId # NoSelection
    /\ ticks >= 3
    /\ requestRef >= 5
    /\ Cardinality(pending) = 1

\* C13 as stated: between activation and teardown a request is pending in
\* every state, also after a tick that found the canvas or context missing
C13_Original == mounted => pending # {}

-----------------------------------------------------------------------------
(* C15: at most one frame request is pending in every reachable state, and *)
(* a pending request's handle is the one stored in requestRef, under every *)
(* interleaving of ticks, re-renders, clicks and teardown.                 *)
C15_OnePending ==
    /\ Cardinality(pending) <= 1
    /\ \A e \in pending : e.handle = requestRef

\* re-renders from a click and from a matter change with frames in between
C15_Witness ==
    /\ containers # INITIAL_CONTAINERS
    /\ selectedId # NoSelection
    /\ ticks >= 2
    /\ \E e \in pending :
          /\ e.handle = requestRef
          /\ e.containers = containers
          /\ e.handle >= 5

-----------------------------------------------------------------------------
\* the centre updateParticles snaps an uninitialised particle to
AtCenter(p, k) ==
    IF k.shape = "RECT"
    THEN p.x = k.bx + k.bw \div 2 /\ p.y = k.by + k.bh \div 2
    ELSE p.x = k.bx /\ p.y = k.by

\* C14: a freshly spawned particle (position (0,0), any spawn velocity) is at
\* the centre of its confinement at the end of its first updateParticles tick
C14_FirstTickAtCenter ==
    (ticks = 1) =>
        \A i \in Slots : \A k \in 1..Len(particles[i]) :
            AtCenter(particles[i][k], ConfinementOf(i))

====
